---- MODULE Spec2Model ----
(***************************************************************************)
(* Model of skills/django-security/scripts/security_auditor.py: the        *)
(* Severity enum and its ordering, the SecurityIssue record, the           *)
(* SecurityAuditor (scanners, report engine, exit code) and main().        *)
(*                                                                         *)
(* Text is modelled character by character: a Python str is a TLA+ string, *)
(* a regular expression is a term of a small matcher (Ends, search) that   *)
(* is written out below.  An optional value (None or a value) is <<>> or   *)
(* <<v>>.                                                                  *)
(***************************************************************************)
EXTENDS Integers, Sequences, FiniteSets, TLC

VARIABLES
    args,        \* parsed command line: scan, format, fail_on, project_root
    fs,          \* the file tree under the project root, in traversal order
    issues,      \* SecurityAuditor.issues
    stdout,      \* what was written to standard output, in order
    stderr,      \* what was written to standard error, in order
    pc,          \* position of main()
    exit_code,   \* <<>> while running, <<n>> once the process has exited
    dep_result,  \* what the dependency scanner observed of its environment
    operands,    \* operands of a Severity comparison
    results      \* results of the Severity comparisons

vars == <<args, fs, issues, stdout, stderr, pc, exit_code, dep_result, operands, results>>

None == <<>>
Some(v) == <<v>>

(***************************************************************************)
(* Bounds of the model.                                                    *)
(***************************************************************************)
MaxIssues == 3   \* issues a caller adds through add_issue
MaxFiles == 2    \* files of the project tree
MaxVulns == 2    \* entries in the output of a dependency tool
MaxLines == 2    \* lines of a file that is put together from single lines

(***************************************************************************)
(* Python str                                                              *)
(***************************************************************************)
CharAt(s, i) == SubSeq(s, i, i)
CharsOf(s) == {CharAt(s, i) : i \in 1..Len(s)}

\* the printable ASCII characters in code point order: 32 (blank) to 95,
\* and 97 to 126 (a string of the model cannot hold character 96)
AsciiTo95 == " !\"#$%&'()*+,-./0123456789:;<=>?@ABCDEFGHIJKLMNOPQRSTUVWXYZ[\\]^_"
AsciiFrom97 == "abcdefghijklmnopqrstuvwxyz{|}~"

AsciiTo95Chars == CharsOf(AsciiTo95)

\* ord(c) for the characters used; a line feed is 10
Ord(c) ==
    IF c = "\n" THEN 10
    ELSE IF c \in AsciiTo95Chars
    THEN 31 + (CHOOSE i \in 1..Len(AsciiTo95) : CharAt(AsciiTo95, i) = c)
    ELSE 96 + (CHOOSE i \in 1..Len(AsciiFrom97) : CharAt(AsciiFrom97, i) = c)

UpperLetters == "ABCDEFGHIJKLMNOPQRSTUVWXYZ"
LowerLetters == "abcdefghijklmnopqrstuvwxyz"
UpperLetterSet == CharsOf(UpperLetters)
LowerLetterSet == CharsOf(LowerLetters)

\* the letter of `to` at the place c has in `from`
MapLetter(c, from, to) == CharAt(to, CHOOSE i \in 1..Len(from) : CharAt(from, i) = c)

\* the text of cs[lo..hi], cs a sequence of one-character strings
RECURSIVE Join(_, _, _)
Join(cs, lo, hi) ==
    IF lo > hi THEN ""
    ELSE IF lo = hi THEN cs[lo]
    ELSE Join(cs, lo, (lo + hi) \div 2) \o Join(cs, (lo + hi) \div 2 + 1, hi)

\* str.lower()
Lower(s) ==
    Join([i \in 1..Len(s) |->
            IF CharAt(s, i) \in UpperLetterSet
            THEN MapLetter(CharAt(s, i), UpperLetters, LowerLetters) ELSE CharAt(s, i)],
         1, Len(s))

\* str.upper()
Upper(s) ==
    Join([i \in 1..Len(s) |->
            IF CharAt(s, i) \in LowerLetterSet
            THEN MapLetter(CharAt(s, i), LowerLetters, UpperLetters) ELSE CharAt(s, i)],
         1, Len(s))

\* x <= y on two str values: lexicographic on code points
RECURSIVE StrLe(_, _)
StrLe(x, y) ==
    IF x = "" THEN TRUE
    ELSE IF y = "" THEN FALSE
    ELSE IF Ord(CharAt(x, 1)) < Ord(CharAt(y, 1)) THEN TRUE
    ELSE IF Ord(CharAt(x, 1)) > Ord(CharAt(y, 1)) THEN FALSE
    ELSE StrLe(SubSeq(x, 2, Len(x)), SubSeq(y, 2, Len(y)))

\* sub in s
Contains(s, sub) ==
    \E i \in 1..(Len(s) - Len(sub) + 1) : SubSeq(s, i, i + Len(sub) - 1) = sub

EndsWith(s, suffix) ==
    Len(suffix) <= Len(s) /\ SubSeq(s, Len(s) - Len(suffix) + 1, Len(s)) = suffix

Whitespace == CharsOf(" \t\n\r\f")

\* str.strip()
RECURSIVE LStrip(_)
LStrip(s) ==
    IF s # "" /\ CharAt(s, 1) \in Whitespace THEN LStrip(SubSeq(s, 2, Len(s))) ELSE s
RECURSIVE RStrip(_)
RStrip(s) ==
    IF s # "" /\ CharAt(s, Len(s)) \in Whitespace
    THEN RStrip(SubSeq(s, 1, Len(s) - 1)) ELSE s
Strip(s) == RStrip(LStrip(s))

\* s[:n]
Truncate(s, n) == IF Len(s) <= n THEN s ELSE SubSeq(s, 1, n)

\* the least member of a set of numbers
Min(S) == CHOOSE m \in S : \A n \in S : m <= n

\* the position of the first line feed of s at or after i, Len(s)+1 if none
NextLineFeed(s, i) == Min({k \in i..Len(s) : CharAt(s, k) = "\n"} \cup {Len(s) + 1})

\* f.readlines(): the lines of s, each with its line feed
RECURSIVE ReadLines(_)
ReadLines(s) ==
    IF s = "" THEN <<>>
    ELSE LET e == NextLineFeed(s, 1)
         IN IF e > Len(s) THEN <<s>>
            ELSE <<SubSeq(s, 1, e)>> \o ReadLines(SubSeq(s, e + 1, Len(s)))

\* str.splitlines(): the lines of s without their line feeds (the contents
\* modelled hold no other line boundary)
SplitLines(s) ==
    LET ls == ReadLines(s)
    IN [k \in 1..Len(ls) |->
          IF EndsWith(ls[k], "\n") THEN SubSeq(ls[k], 1, Len(ls[k]) - 1) ELSE ls[k]]

(***************************************************************************)
(* Regular expressions (module re): a pattern is a term, Ends(n, s, i) is  *)
(* the set of positions just after a match of n that starts at i.          *)
(***************************************************************************)
WordChars ==
    CharsOf("abcdefghijklmnopqrstuvwxyzABCDEFGHIJKLMNOPQRSTUVWXYZ0123456789_")

Lit(str) == [k |-> "lit", s |-> str]           \* the text itself
In(set) == [k |-> "in", s |-> set]             \* [...]
NotIn(set) == [k |-> "notin", s |-> set]       \* [^...]
Cat(items) == [k |-> "cat", items |-> items]   \* one after the other
Alt(items) == [k |-> "alt", items |-> items]   \* a|b
Star(n) == [k |-> "star", of |-> n]            \* n*
Opt(n) == Alt(<<n, Cat(<<>>)>>)                \* n?
Plus(n) == Cat(<<n, Star(n)>>)                 \* n+
WordB == [k |-> "wb"]                          \* \b
Blanks == Star(In(Whitespace))                 \* \s*
Quote == In(CharsOf("\"'"))                    \* ["\']
Dot == NotIn({"\n"})                           \* .

IsWordAt(s, i) == i >= 1 /\ i <= Len(s) /\ CharAt(s, i) \in WordChars

RECURSIVE Ends(_, _, _)
RECURSIVE CatEnds(_, _, _, _)
RECURSIVE StarEnds(_, _, _, _)
CatEnds(items, k, s, from) ==
    IF k > Len(items) \/ from = {} THEN from
    ELSE CatEnds(items, k + 1, s, UNION {Ends(items[k], s, i) : i \in from})
StarEnds(n, s, frontier, acc) ==
    LET new == (UNION {Ends(n, s, i) : i \in frontier}) \ acc
    IN IF new = {} THEN acc ELSE StarEnds(n, s, new, acc \cup new)
Ends(n, s, i) ==
    CASE n.k = "lit" ->
            IF i + Len(n.s) - 1 <= Len(s) /\ SubSeq(s, i, i + Len(n.s) - 1) = n.s
            THEN {i + Len(n.s)} ELSE {}
      [] n.k = "in" -> IF i <= Len(s) /\ CharAt(s, i) \in n.s THEN {i + 1} ELSE {}
      [] n.k = "notin" -> IF i <= Len(s) /\ CharAt(s, i) \notin n.s THEN {i + 1} ELSE {}
      [] n.k = "cat" -> CatEnds(n.items, 1, s, {i})
      [] n.k = "alt" -> UNION {Ends(n.items[j], s, i) : j \in 1..Len(n.items)}
      [] n.k = "star" ->
            \* a run of one class of characters is read off directly
            IF n.of.k = "in"
            THEN i..Min({k \in i..Len(s) : CharAt(s, k) \notin n.of.s} \cup {Len(s) + 1})
            ELSE IF n.of.k = "notin"
            THEN i..Min({k \in i..Len(s) : CharAt(s, k) \in n.of.s} \cup {Len(s) + 1})
            ELSE StarEnds(n.of, s, {i}, {i})
      [] n.k = "wb" -> IF IsWordAt(s, i - 1) # IsWordAt(s, i) THEN {i} ELSE {}

\* re.search(pattern, s) is not None
search(re, s) == \E i \in 1..(Len(s) + 1) : Ends(re, s, i) # {}

\* re.search(pattern, s, re.IGNORECASE) is not None, for a pattern whose
\* letters are written in lower case
searchI(re, s) == search(re, Lower(s))

\* group(1) of re.search(before (group) after, s, re.IGNORECASE), None when
\* there is no match: the match that starts leftmost, its group taken as
\* long as the rest of the pattern allows.  The letters of the pattern are
\* in lower case; the group is cut out of s itself.
GroupSpans(before, group, after, low, i) ==
    UNION {{<<b, e>> : e \in {e2 \in Ends(group, low, b) : Ends(after, low, e2) # {}}}
           : b \in Ends(before, low, i)}

searchGroupI(before, group, after, s) ==
    LET low == Lower(s)
        starts == {i \in 1..(Len(s) + 1) : GroupSpans(before, group, after, low, i) # {}}
    IN IF starts = {} THEN None
       ELSE LET found == GroupSpans(before, group, after, low, Min(starts))
                sp == CHOOSE x \in found : \A y \in found : y[2] <= x[2]
            IN Some(SubSeq(s, sp[1], sp[2] - 1))

(***************************************************************************)
(* Severity                                                                *)
(***************************************************************************)
\* the members of the enum in definition order; a member is written as its
\* name, which is also its value
Severity == <<"CRITICAL", "HIGH", "MEDIUM", "LOW", "INFO">>

Severities == {Severity[i] : i \in 1..Len(Severity)}

\* Severity.X.value
SeverityValue(s) ==
    CASE s = "CRITICAL" -> "CRITICAL"
      [] s = "HIGH"     -> "HIGH"
      [] s = "MEDIUM"   -> "MEDIUM"
      [] s = "LOW"      -> "LOW"
      [] s = "INFO"     -> "INFO"

\* the order dict of Severity.__lt__
order(s) ==
    CASE s = "CRITICAL" -> 0
      [] s = "HIGH"     -> 1
      [] s = "MEDIUM"   -> 2
      [] s = "LOW"      -> 3
      [] s = "INFO"     -> 4

SeverityLtReversed(self, other) == order(other) < order(self)

SeverityLtSkipping(self, other) == order(self) + 1 < order(other)

\* Severity.__lt__
SeverityLt(self, other) == order(self) < order(other)

(***************************************************************************)
(* SecurityIssue                                                           *)
(***************************************************************************)
SecurityIssue(severity, category, title, description, file_path, line_number, code_snippet, recommendation, cve, auto_fixable) ==
    [severity |-> severity, category |-> category, title |-> title,
     description |-> description, file_path |-> file_path,
     line_number |-> line_number, code_snippet |-> code_snippet,
     recommendation |-> recommendation, cve |-> cve,
     auto_fixable |-> auto_fixable]

to_dict_without_cve(self) ==
    [severity |-> SeverityValue(self.severity), category |-> self.category,
     title |-> self.title, description |-> self.description,
     file_path |-> self.file_path, line_number |-> self.line_number,
     code_snippet |-> self.code_snippet, recommendation |-> self.recommendation,
     auto_fixable |-> self.auto_fixable]

\* SecurityIssue.to_dict
to_dict(self) ==
    [severity |-> SeverityValue(self.severity), category |-> self.category,
     title |-> self.title, description |-> self.description,
     file_path |-> self.file_path, line_number |-> self.line_number,
     code_snippet |-> self.code_snippet, recommendation |-> self.recommendation,
     cve |-> self.cve, auto_fixable |-> self.auto_fixable]

\* Python truth value of an optional str and of an optional int: None, the
\* empty string and 0 are false.
TruthyStr(opt) == opt # None /\ opt[1] # ""
TruthyInt(opt) == opt # None /\ opt[1] # 0

add_issue_in_front(iss, issue) == <<issue>> \o iss

\* an issue is left out when one of its title about its file is in the list
add_issue_once(iss, issue) ==
    IF \E k \in 1..Len(iss) : iss[k].title = issue.title /\ iss[k].file_path = issue.file_path
    THEN iss ELSE Append(iss, issue)

\* SecurityAuditor.add_issue: the list after self.issues.append(issue)
add_issue(iss, issue) == Append(iss, issue)

(***************************************************************************)
(* Report engine                                                           *)
(***************************************************************************)
RECURSIVE Flatten(_)
Flatten(ss) == IF ss = <<>> THEN <<>> ELSE Head(ss) \o Flatten(Tail(ss))

RECURSIVE SumSeq(_)
SumSeq(ns) == IF ns = <<>> THEN 0 ELSE Head(ns) + SumSeq(Tail(ns))

RECURSIVE group_by_severity_prepend(_, _)
group_by_severity_prepend(iss, by_severity) ==
    IF iss = <<>> THEN by_severity
    ELSE group_by_severity_prepend(Tail(iss),
            [by_severity EXCEPT ![Head(iss).severity] = <<Head(iss)>> \o @])

\* the grouping loop of _generate_text_report; a key that was never set
\* reads as the empty list (by_severity.get(severity, []))
RECURSIVE group_by_severity(_, _)
group_by_severity(iss, by_severity) ==
    IF iss = <<>> THEN by_severity
    ELSE group_by_severity(Tail(iss),
            [by_severity EXCEPT ![Head(iss).severity] = Append(@, Head(iss))])

\* the lines one issue adds to the text report
issue_block(issue) ==
       << <<"">>,
          <<"Issue", issue.category, issue.title>>,
          <<"Description", issue.description>> >>
    \o (IF TruthyStr(issue.file_path)
        THEN << <<"Location", issue.file_path[1],
                  IF TruthyInt(issue.line_number) THEN issue.line_number ELSE None>> >>
        ELSE <<>>)
    \o (IF TruthyStr(issue.code_snippet)
        THEN << <<"Code", issue.code_snippet[1]>> >> ELSE <<>>)
    \o (IF TruthyStr(issue.recommendation)
        THEN << <<"Recommendation", issue.recommendation[1]>> >> ELSE <<>>)
    \o (IF TruthyStr(issue.cve) THEN << <<"CVE", issue.cve[1]>> >> ELSE <<>>)
    \o (IF issue.auto_fixable THEN << <<"Auto-fixable">> >> ELSE <<>>)

\* the section of one severity: nothing when it has no issue
severity_section(severity, group) ==
    IF group = <<>> THEN <<>>
    ELSE << <<"rule-">>, <<"Section", severity, Len(group)>>, <<"rule-">> >>
         \o Flatten([k \in 1..Len(group) |-> issue_block(group[k])])

\* SecurityAuditor._generate_text_report: the list of report lines
generate_text_report(iss) ==
    LET by_severity == group_by_severity(iss, [s \in Severities |-> <<>>])
        count(s) == Len(by_severity[s])
    IN     << <<"rule=">>, <<"DJANGO SECURITY AUDIT REPORT">>, <<"rule=">>, <<"">>,
              <<"Total", Len(iss)>> >>
        \o Flatten([k \in 1..Len(Severity) |->
              IF count(Severity[k]) > 0
              THEN << <<"Count", Severity[k], count(Severity[k])>> >> ELSE <<>>])
        \o << <<"">> >>
        \o Flatten([k \in 1..Len(Severity) |->
              severity_section(Severity[k], by_severity[Severity[k]])])
        \o << <<"">>, <<"rule=">> >>
        \o (IF count("CRITICAL") > 0
            THEN << <<"CriticalFooter", count("CRITICAL")>> >> ELSE <<>>)
        \o (IF count("HIGH") > 0
            THEN << <<"HighFooter", count("HIGH")>> >> ELSE <<>>)

\* sum(1 for issue in self.issues if issue.severity == severity)
CountSeverity(iss, severity) ==
    Cardinality({k \in 1..Len(iss) : iss[k].severity = severity})

\* SecurityAuditor._generate_json_report: the object that json.dumps writes,
\* by_severity in the iteration order of the enum
generate_json_report(iss) ==
    [total_issues |-> Len(iss),
     by_severity |-> [k \in 1..Len(Severity) |->
                        <<SeverityValue(Severity[k]), CountSeverity(iss, Severity[k])>>],
     issues |-> [k \in 1..Len(iss) |-> to_dict(iss[k])]]

\* SecurityAuditor._generate_html_report: head, one div per issue, end
generate_html_report(iss) ==
       << <<"head">>, <<"Total", Len(iss)>> >>
    \o [k \in 1..Len(iss) |->
          <<"div", Lower(SeverityValue(iss[k].severity)),
            SeverityValue(iss[k].severity), iss[k].title, iss[k].description,
            IF TruthyStr(iss[k].file_path)
            THEN <<iss[k].file_path[1],
                   IF TruthyInt(iss[k].line_number) THEN iss[k].line_number ELSE None>>
            ELSE None,
            IF TruthyStr(iss[k].recommendation) THEN iss[k].recommendation ELSE None>>]
    \o << <<"end">> >>

\* SecurityAuditor.generate_report
generate_report(iss, format) ==
    IF format = "json" THEN generate_json_report(iss)
    ELSE IF format = "html" THEN generate_html_report(iss)
    ELSE generate_text_report(iss)

get_exit_code_critical_only(iss) ==
    IF \E k \in 1..Len(iss) : iss[k].severity \in {"CRITICAL"} THEN 1 ELSE 0

\* the status of the newest issue alone
get_exit_code_of_last(iss) ==
    IF iss # <<>> /\ iss[Len(iss)].severity \in {"CRITICAL", "HIGH"} THEN 1 ELSE 0

\* SecurityAuditor.get_exit_code
get_exit_code(iss) ==
    IF \E k \in 1..Len(iss) : iss[k].severity \in {"CRITICAL", "HIGH"} THEN 1 ELSE 0

\* the fail_severity dict of main()
fail_severity(fail_on) ==
    CASE fail_on = "critical" -> "CRITICAL"
      [] fail_on = "high"     -> "HIGH"
      [] fail_on = "medium"   -> "MEDIUM"
      [] fail_on = "low"      -> "LOW"

\* main(), "Determine exit code": the status the process exits with
main_exit_code(iss, fail_on) ==
    IF fail_on # None
       /\ \E k \in 1..Len(iss) :
             StrLe(SeverityValue(iss[k].severity), SeverityValue(fail_severity(fail_on[1])))
    THEN 1
    ELSE get_exit_code(iss)

(***************************************************************************)
(* Files.  A file is [path, readable, content]: its path relative to the   *)
(* project root, whether open() and read() succeed, and its text.          *)
(***************************************************************************)
\* str(project_root / path)
FullPath(root, path) == IF root = "." THEN path ELSE root \o "/" \o path

\* the part of s after its last sep, s itself when it has none
RECURSIVE AfterLast(_, _)
AfterLast(s, sep) ==
    IF \E i \in 1..Len(s) : CharAt(s, i) = sep
    THEN AfterLast(SubSeq(s, (CHOOSE i \in 1..Len(s) : CharAt(s, i) = sep) + 1, Len(s)), sep)
    ELSE s

\* the directory part of a path, "" for a file of the root
DirName(path) == SubSeq(path, 1, Len(path) - Len(AfterLast(path, "/")))

\* rglob(name): the files of the tree with that name, in traversal order
RglobName(files, name) == SelectSeq(files, LAMBDA f : AfterLast(f.path, "/") = name)

\* rglob("*.py")
RglobPy(files) == SelectSeq(files, LAMBDA f : EndsWith(f.path, ".py"))

\* the result of a scanner: the issues it adds, what it prints, and whether
\* an exception left it
ScanResult(found, out, raised) == [issues |-> found, out |-> out, raised |-> raised]

(***************************************************************************)
(* SecurityAuditor.scan_settings                                           *)
(***************************************************************************)
DebugTrueSpacedRe == Lit("DEBUG = True")

DebugTrueRe == Cat(<<WordB, Lit("DEBUG"), Blanks, Lit("="), Blanks, Lit("True"), WordB>>)

SecretKeyAssignedRe == Cat(<<Lit("SECRET_KEY"), Blanks, Lit("=")>>)

SecretKeyRe ==
    Cat(<<Lit("SECRET_KEY"), Blanks, Lit("="), Blanks, Quote,
          Plus(NotIn(CharsOf("\"'"))), Quote>>)

AllowedHostsBareRe ==
    Cat(<<Lit("ALLOWED_HOSTS"), Blanks, Lit("="), Blanks, Lit("["), Blanks, Lit("*"),
          Blanks, Lit("]")>>)

AllowedHostsQuotedRe ==
    Cat(<<Lit("ALLOWED_HOSTS"), Blanks, Lit("="), Blanks, Lit("["), Blanks, Quote,
          Opt(Lit("\\")), Lit("*"), Quote>>)

required_middleware ==
    <<"django.middleware.security.SecurityMiddleware",
      "django.middleware.csrf.CsrfViewMiddleware",
      "django.middleware.clickjacking.XFrameOptionsMiddleware">>

\* the https_settings dict, in insertion order: (name, expected, severity)
https_settings ==
    <<<<"SECURE_SSL_REDIRECT", "True", "HIGH">>,
      <<"SESSION_COOKIE_SECURE", "True", "HIGH">>,
      <<"CSRF_COOKIE_SECURE", "True", "HIGH">>,
      <<"SECURE_BROWSER_XSS_FILTER", "True", "MEDIUM">>,
      <<"SECURE_CONTENT_TYPE_NOSNIFF", "True", "MEDIUM">>>>

SettingFalseRe(setting) == Cat(<<Lit(setting), Blanks, Lit("="), Blanks, Lit("False")>>)

CspReportOnlyRe ==
    Cat(<<Lit("CONTENT_SECURITY_POLICY_REPORT_ONLY"), Blanks, Lit("="), Blanks,
          Alt(<<Lit("True"), Lit("False"), Lit("DEBUG")>>)>>)

\* the checks of scan_settings on the text of the settings file
settings_checks(settings_path, content) ==
       (IF search(DebugTrueRe, content)
        THEN <<SecurityIssue("CRITICAL", "Settings", "DEBUG enabled",
                 "DEBUG = True in settings - NEVER use in production",
                 Some(settings_path), None, None,
                 Some("Set DEBUG = False for production. Use environment variable: DEBUG = os.environ.get('DEBUG', 'False') == 'True'"),
                 None, TRUE)>>
        ELSE <<>>)
    \o (IF search(SecretKeyRe, content)
           /\ ~Contains(content, "os.environ") /\ ~Contains(content, "env(")
        THEN <<SecurityIssue("CRITICAL", "Settings", "Hardcoded SECRET_KEY",
                 "SECRET_KEY is hardcoded in settings",
                 Some(settings_path), None, None,
                 Some("Use environment variable: SECRET_KEY = os.environ['DJANGO_SECRET_KEY']"),
                 None, FALSE)>>
        ELSE <<>>)
    \o (IF search(AllowedHostsBareRe, content) \/ search(AllowedHostsQuotedRe, content)
        THEN <<SecurityIssue("HIGH", "Settings", "ALLOWED_HOSTS wildcard",
                 "ALLOWED_HOSTS = ['*'] allows any host header",
                 Some(settings_path), None, None,
                 Some("Set specific hosts: ALLOWED_HOSTS = ['yourdomain.com', 'www.yourdomain.com']"),
                 None, FALSE)>>
        ELSE <<>>)
    \o Flatten([k \in 1..Len(required_middleware) |->
          LET mw == required_middleware[k]
          IN IF ~Contains(content, mw)
             THEN <<SecurityIssue("HIGH", "Settings",
                      "Missing security middleware: " \o AfterLast(mw, "."),
                      "Required security middleware not found: " \o mw,
                      Some(settings_path), None, None,
                      Some("Add to MIDDLEWARE list: '" \o mw \o "'"), None, TRUE)>>
             ELSE <<>>])
    \o Flatten([k \in 1..Len(https_settings) |->
          LET setting == https_settings[k][1]
              expected == https_settings[k][2]
          IN IF ~Contains(content, setting)
             THEN <<SecurityIssue("MEDIUM", "Settings",
                      "Missing security setting: " \o setting,
                      setting \o " not configured",
                      Some(settings_path), None, None,
                      Some("Add " \o setting \o " = " \o expected), None, TRUE)>>
             ELSE IF search(SettingFalseRe(setting), content)
             THEN <<SecurityIssue("HIGH", "Settings",
                      "Insecure setting: " \o setting \o " = False",
                      setting \o " is disabled",
                      Some(settings_path), None, None,
                      Some("Set " \o setting \o " = True"), None, TRUE)>>
             ELSE <<>>])
    \o (IF ~Contains(content, "AUTH_PASSWORD_VALIDATORS")
        THEN <<SecurityIssue("MEDIUM", "Settings", "Missing password validators",
                 "AUTH_PASSWORD_VALIDATORS not configured",
                 Some(settings_path), None, None,
                 Some("Configure Django password validators"), None, TRUE)>>
        ELSE <<>>)
    \o (IF search(CspReportOnlyRe, content)
        THEN <<SecurityIssue("HIGH", "Settings", "CSP report-only mode misconfigured",
                 "CONTENT_SECURITY_POLICY_REPORT_ONLY set to boolean (causes AttributeError in django-csp 4.0+)",
                 Some(settings_path), None, None,
                 Some("Remove line or set to dict: CONTENT_SECURITY_POLICY_REPORT_ONLY = {'DIRECTIVES': {...}}"),
                 None, FALSE)>>
        ELSE <<>>)

(***************************************************************************)
(* SecurityAuditor._scan_file_for_vulnerabilities                          *)
(***************************************************************************)
\* the numbers of the lines, from 1, whose flag is set, ascending
HitLines(hit) == SelectSeq([i \in 1..Len(hit) |-> i], LAMBDA i : hit[i])

NotParen == Star(NotIn({")"}))
AnyText == Star(Dot)

\* (pattern, description)
sql_injection_patterns ==
    <<<<Cat(<<Lit(".raw("), NotParen, Quote, AnyText, Lit("%s"), AnyText, Lit("%"), AnyText, Quote>>),
        "String formatting in raw SQL">>,
      <<Cat(<<Lit(".raw("), NotParen, Lit("f"), Quote>>), "F-string in raw SQL">>,
      <<Cat(<<Lit(".execute("), NotParen, Quote, AnyText, Lit("%s"), AnyText, Lit("%"), AnyText, Quote>>),
        "String formatting in execute">>,
      <<Cat(<<Lit(".execute("), NotParen, Lit("f"), Quote>>), "F-string in execute">>>>

xss_patterns ==
    <<<<Lit("mark_safe("), "mark_safe usage">>,
      <<Cat(<<Lit("|"), Blanks, Lit("safe")>>), "|safe filter">>,
      <<Lit("safestring.SafeString"), "SafeString usage">>>>

NotQuotes == Plus(NotIn(CharsOf("\"'")))
AssignQuote == <<Blanks, Lit("="), Blanks, Quote>>

\* self.secret_patterns, the part before the group in lower case (they are
\* searched with re.IGNORECASE): (before the group, secret_type)
secret_patterns ==
    <<<<Cat(<<Lit("secret_key")>> \o AssignQuote), "SECRET_KEY">>,
      <<Cat(<<Lit("aws_secret_access_key")>> \o AssignQuote), "AWS Secret">>,
      <<Cat(<<Lit("api"), Opt(In({"_", "-"})), Lit("key")>> \o AssignQuote),
        "API Key">>,
      <<Cat(<<Lit("password")>> \o AssignQuote), "Password">>,
      <<Cat(<<Alt(<<Lit("auth"), Lit("token")>>), Opt(In({"_", "-"})), Lit("key")>>
            \o AssignQuote),
        "Auth Token">>>>

\* (pattern, description, severity)
dangerous_patterns ==
    <<<<Cat(<<WordB, Lit("eval(")>>), "eval() usage", "CRITICAL">>,
      <<Cat(<<WordB, Lit("exec(")>>), "exec() usage", "CRITICAL">>,
      <<Cat(<<Lit("pickle.load"), Opt(Lit("s")), Lit("(")>>), "pickle deserialization", "HIGH">>,
      <<Cat(<<Lit("subprocess."), Star(NotIn({"("})), Lit("("), AnyText, Lit("shell"), Blanks,
              Lit("="), Blanks, Lit("True")>>),
        "shell=True in subprocess", "HIGH">>,
      <<Lit("os.system("), "os.system() usage", "HIGH">>>>

\* in lower case (searched with re.IGNORECASE); the | of each pattern
\* separates the whole of what is before it from "request"
path_traversal_patterns ==
    <<Alt(<<Cat(<<Lit("open("), NotParen, Lit("user")>>), Lit("request")>>),
      Alt(<<Cat(<<Lit("path("), NotParen, Lit("user")>>), Lit("request")>>),
      Alt(<<Cat(<<Lit("os.path.join("), NotParen, Lit("user")>>), Lit("request")>>)>>

\* the value a secret pattern finds on a line, None when the line is let go
secret_value(before, line) ==
    LET m == searchGroupI(before, NotQuotes, Quote, line)
    IN IF m # None /\ ~Contains(line, "os.environ") /\ ~Contains(line, "env(")
          /\ Len(m[1]) > 10 /\ m[1] \notin {"your-secret-key", "changeme", "dummy"}
       THEN m ELSE None

\* code_snippet of a secret finding: line.strip()[:100]
secret_snippet(line) == Truncate(Strip(line), 100)

\* the issues _scan_file_for_vulnerabilities adds for one file
scan_file_for_vulnerabilities(file_path, content, lines) ==
       Flatten([p \in 1..Len(sql_injection_patterns) |->
          LET hits == HitLines([i \in 1..Len(lines) |-> search(sql_injection_patterns[p][1], lines[i])])
          IN [k \in 1..Len(hits) |->
                SecurityIssue("CRITICAL", "SQL Injection",
                  "Potential SQL injection: " \o sql_injection_patterns[p][2],
                  "SQL query with string formatting detected",
                  Some(file_path), Some(hits[k]), Some(Strip(lines[hits[k]])),
                  Some("Use parameterized queries: .raw('SELECT * FROM table WHERE id = %s', [value])"),
                  None, FALSE)]])
    \o Flatten([p \in 1..Len(xss_patterns) |->
          LET hits == HitLines([i \in 1..Len(lines) |-> search(xss_patterns[p][1], lines[i])])
          IN [k \in 1..Len(hits) |->
                SecurityIssue("HIGH", "XSS", "Potential XSS: " \o xss_patterns[p][2],
                  "Unsafe HTML rendering detected",
                  Some(file_path), Some(hits[k]), Some(Strip(lines[hits[k]])),
                  Some("Only use mark_safe with trusted, sanitized content. Consider using django.utils.html.escape()"),
                  None, FALSE)]])
    \o Flatten([p \in 1..Len(secret_patterns) |->
          LET hits == HitLines([i \in 1..Len(lines) |-> secret_value(secret_patterns[p][1], lines[i]) # None])
              secret_type == secret_patterns[p][2]
              upper == Upper(secret_type)
          IN [k \in 1..Len(hits) |->
                SecurityIssue("CRITICAL", "Secrets", "Hardcoded " \o secret_type,
                  "Hardcoded " \o secret_type \o " found in code",
                  Some(file_path), Some(hits[k]), Some(secret_snippet(lines[hits[k]])),
                  Some("Use environment variables: " \o upper \o " = os.environ['" \o upper \o "']"),
                  None, FALSE)]])
    \o Flatten([p \in 1..Len(dangerous_patterns) |->
          LET hits == HitLines([i \in 1..Len(lines) |-> search(dangerous_patterns[p][1], lines[i])])
              desc == dangerous_patterns[p][2]
          IN [k \in 1..Len(hits) |->
                SecurityIssue(dangerous_patterns[p][3], "Dangerous Functions",
                  "Dangerous function: " \o desc, desc \o " can lead to code execution",
                  Some(file_path), Some(hits[k]), Some(Strip(lines[hits[k]])),
                  Some("Avoid " \o desc \o ". Use safer alternatives."),
                  None, FALSE)]])
    \o Flatten([p \in 1..Len(path_traversal_patterns) |->
          LET hits == HitLines([i \in 1..Len(lines) |-> searchI(path_traversal_patterns[p], lines[i])])
          IN [k \in 1..Len(hits) |->
                SecurityIssue("HIGH", "Path Traversal", "Potential path traversal",
                  "File path constructed with user input",
                  Some(file_path), Some(hits[k]), Some(Strip(lines[hits[k]])),
                  Some("Validate and sanitize file paths. Use django.core.files.storage for uploads."),
                  None, FALSE)]])

(***************************************************************************)
(* SecurityAuditor._scan_file_for_multi_tenant_issues                      *)
(***************************************************************************)
ObjectsAllRe == Lit(".objects.all()")
ObjectsGetRe == Cat(<<Lit(".objects.get("), NotParen, Lit(")")>>)

\* no path is taken for a file of the admin
admin_py_nowhere(file_path) == FALSE

\* 'admin.py' in str(file_path)
admin_py(file_path) == Contains(file_path, "admin.py")

scan_file_for_multi_tenant_issues(file_path, lines) ==
    Flatten([i \in 1..Len(lines) |->
          (IF search(ObjectsAllRe, lines[i])
              /\ ~Contains(lines[i], "unfiltered") /\ ~admin_py(file_path)
           THEN <<SecurityIssue("MEDIUM", "Multi-Tenant",
                    "Unfiltered query - potential tenant leak",
                    ".all() query without tenant filter",
                    Some(file_path), Some(i), Some(Strip(lines[i])),
                    Some("Ensure query filters by tenant: .filter(tenant=request.tenant)"),
                    None, FALSE)>>
           ELSE <<>>)
       \o (IF search(ObjectsGetRe, lines[i])
              /\ ~Contains(lines[i], "tenant") /\ ~admin_py(file_path)
           THEN <<SecurityIssue("MEDIUM", "Multi-Tenant", "Query without tenant filter",
                    ".get() query may not filter by tenant",
                    Some(file_path), Some(i), Some(Strip(lines[i])),
                    Some("Include tenant in query: .get(pk=pk, tenant=request.tenant)"),
                    None, FALSE)>>
           ELSE <<>>)])

(***************************************************************************)
(* The inputs of the model                                                 *)
(***************************************************************************)
File(path, readable, content) == [path |-> path, readable |-> readable, content |-> content]

InsecureSettings ==
    "DEBUG = True\nSECRET_KEY = 'django-insecure-0123456789'\nALLOWED_HOSTS = ['*']\nSESSION_COOKIE_SECURE = False\n"

SecureSettings ==
    "import os\nDEBUG = False\nSECRET_KEY = os.environ['DJANGO_SECRET_KEY']\nALLOWED_HOSTS = ['example.com']\nMIDDLEWARE = ['django.middleware.security.SecurityMiddleware', 'django.middleware.csrf.CsrfViewMiddleware', 'django.middleware.clickjacking.XFrameOptionsMiddleware']\nSECURE_SSL_REDIRECT = True\nSESSION_COOKIE_SECURE = True\nCSRF_COOKIE_SECURE = True\nSECURE_BROWSER_XSS_FILTER = True\nSECURE_CONTENT_TYPE_NOSNIFF = True\nAUTH_PASSWORD_VALIDATORS = []\n"

\* the files a project tree is made of
FileCatalogue ==
    { File("app/settings.py", TRUE, InsecureSettings),
      File("app/settings.py", FALSE, ""),
      File("config/settings.py", TRUE, SecureSettings),
      File("app/views.py", TRUE, "    data = eval(body)\n    items = Item.objects.all()\n"),
      File("app/views.py", FALSE, ""),
      File("app/models.py", TRUE, "os.system(cmd)\n"),
      File("app/admin.py", TRUE, "qs = Item.objects.all()\nhtml = mark_safe(text)\n"),
      File("app/migrations/0001_initial.py", TRUE, "exec(code)\n") }

\* the directories of the catalogue, each with its final "/", and the root ""
Directories ==
    {""} \cup UNION {{SubSeq(f.path, 1, i) : i \in {j \in 1..Len(f.path) : CharAt(f.path, j) = "/"}}
                     : f \in FileCatalogue}

Under(f, dir) == Len(dir) <= Len(f.path) /\ SubSeq(f.path, 1, Len(dir)) = dir

\* rglob walks a directory's own files before its subdirectories, and one
\* subdirectory wholly before the next; the order inside a directory is the
\* file system's
TraversalOrder(t) ==
    /\ \A i, j \in 1..Len(t) : i # j => t[i].path # t[j].path
    /\ \A dir \in Directories :
          /\ \A i, j, k \in 1..Len(t) :
                i < j /\ j < k /\ Under(t[i], dir) /\ Under(t[k], dir) => Under(t[j], dir)
          /\ \A i, j \in 1..Len(t) :
                DirName(t[i].path) = dir /\ Under(t[j], dir) /\ DirName(t[j].path) # dir
                   => i < j

Trees ==
    UNION {{t \in [1..n -> FileCatalogue] : TraversalOrder(t)} : n \in 0..MaxFiles}

Scans == {"settings", "code", "dependencies", "multi-tenant", "all"}
Formats == {"text", "json", "html"}
FailOns == {None, Some("critical"), Some("high"), Some("medium"), Some("low")}

ProjectRoots == {"proj"}

\* a project root whose own path has the word the scanners skip files by
VenvRoots == {"venv/proj"}

Args == [scan : Scans, format : Formats, fail_on : FailOns, project_root : ProjectRoots]

\* entries of pip-audit's "dependencies": one as the scanner reads it, one
\* of a package without known vulnerability
PipAuditEntries ==
    { [name |-> Some("django"), version |-> Some("2.2"), fix_versions |-> Some(<<"2.2.28">>),
       vulns |-> Some(<<[id |-> Some("PYSEC-2021-1")]>>)],
      [name |-> Some("requests"), version |-> Some("2.31"), fix_versions |-> None,
       vulns |-> Some(<<>>)] }

SafetyEntries == { <<"django", "CVE-2021-1", "SQL injection in QuerySet">>, <<"pyyaml", "CVE-2020-2">> }

SeqsUpTo(S, n) == UNION {[1..m -> S] : m \in 0..n}

NotRun == [r |-> "not_run"]

PipAuditRuns ==
    {[r |-> "timeout"]}
    \cup {[r |-> "ran", returncode |-> 1, stdout |-> [j |-> "empty"]]}
    \cup {[r |-> "ran", returncode |-> 0, stdout |-> out] :
             out \in {[j |-> "malformed"], [j |-> "array", items |-> <<>>]}}
    \cup {[r |-> "ran", returncode |-> c, stdout |-> [j |-> "object", dependencies |-> d]] :
             c \in {0, 1}, d \in SeqsUpTo(PipAuditEntries, MaxVulns)}

SafetyRuns ==
    {[r |-> "not_found"], [r |-> "timeout"]}
    \cup {[r |-> "ran", returncode |-> 0, stdout |-> out] :
             out \in {[j |-> "empty"], [j |-> "malformed"]}
                     \cup {[j |-> "array", items |-> v] :
                              v \in SeqsUpTo(SafetyEntries, MaxVulns) \ {<<>>}}}

\* what safety does, started where pip-audit has not given a report: it
\* reports one vulnerable package
SafetyReports ==
    [r |-> "ran", returncode |-> 0,
     stdout |-> [j |-> "array", items |-> <<<<"django", "CVE-2021-1", "SQL injection in QuerySet">>>>]]

\* what the scanner meets: no requirements file (whatever the tools would
\* do, or with both of them missing); pip-audit installed, with what safety
\* would do where pip-audit fails; pip-audit not installed and safety's
\* outcomes
DepEnvs ==
    {[manifest |-> FALSE, pip_audit |-> t, safety |-> t] : t \in {NotRun, [r |-> "not_found"]}}
    \cup {[manifest |-> TRUE, pip_audit |-> p,
           safety |-> IF p.r = "ran" /\ p.returncode = 0 /\ p.stdout.j = "object"
                      THEN NotRun ELSE SafetyReports] : p \in PipAuditRuns}
    \cup {[manifest |-> TRUE, pip_audit |-> [r |-> "not_found"], safety |-> s] : s \in SafetyRuns}

(***************************************************************************)
(* The scanners over the tree                                              *)
(***************************************************************************)
Written(kind, text) == [kind |-> kind, text |-> text]

\* what the per-file scanners find in each file of the catalogue, worked out
\* once: the settings checks, _scan_file_for_vulnerabilities on
\* content.splitlines() and _scan_file_for_multi_tenant_issues on readlines()
FileFindings ==
    [root \in ProjectRoots \cup VenvRoots |->
       [f \in FileCatalogue |->
          [settings |-> settings_checks(FullPath(root, f.path), f.content),
           code |-> scan_file_for_vulnerabilities(FullPath(root, f.path), f.content,
                                                  SplitLines(f.content)),
           multi_tenant |-> scan_file_for_multi_tenant_issues(FullPath(root, f.path),
                                                              ReadLines(f.content))]]]

\* SecurityAuditor.scan_settings()
scan_settings(root, files) ==
    LET settings_candidates == RglobName(files, "settings.py")
    IN IF settings_candidates = <<>>
       THEN ScanResult(<<>>, <<Written("print", "Could not find settings.py")>>, FALSE)
       ELSE LET f == settings_candidates[1]
            IN IF ~f.readable
               THEN ScanResult(<<>>, <<>>, TRUE)
               ELSE ScanResult(FileFindings[root][f].settings, <<>>, FALSE)

\* the files passed over by their own name alone
skipped_by_name(file_path) ==
    Contains(AfterLast(file_path, "/"), "venv") \/ Contains(AfterLast(file_path, "/"), "migrations")

\* the paths scan_code and scan_multi_tenant pass over
skipped(file_path) == Contains(file_path, "venv") \/ Contains(file_path, "migrations")

\* SecurityAuditor.scan_code()
scan_code(root, files) ==
    LET python_files == RglobPy(files)
        path(k) == FullPath(root, python_files[k].path)
    IN ScanResult(
         Flatten([k \in 1..Len(python_files) |->
            IF skipped(path(k)) \/ ~python_files[k].readable THEN <<>>
            ELSE FileFindings[root][python_files[k]].code]),
         Flatten([k \in 1..Len(python_files) |->
            IF ~skipped(path(k)) /\ ~python_files[k].readable
            THEN <<Written("print", "Error scanning " \o path(k))>> ELSE <<>>]),
         FALSE)

\* SecurityAuditor.scan_multi_tenant()
scan_multi_tenant(root, files) ==
    LET python_files == RglobPy(files)
        path(k) == FullPath(root, python_files[k].path)
    IN ScanResult(
         Flatten([k \in 1..Len(python_files) |->
            IF skipped(path(k)) \/ ~python_files[k].readable THEN <<>>
            ELSE FileFindings[root][python_files[k]].multi_tenant]),
         Flatten([k \in 1..Len(python_files) |->
            IF ~skipped(path(k)) /\ ~python_files[k].readable
            THEN <<Written("print", "Error scanning " \o path(k))>> ELSE <<>>]),
         FALSE)

(***************************************************************************)
(* SecurityAuditor.scan_dependencies.  What the scanner meets is           *)
(* [manifest, pip_audit, safety]: whether a requirements file exists, and  *)
(* for each tool [r |-> "not_found"], [r |-> "timeout"] or                 *)
(* [r |-> "ran", returncode, stdout]; stdout is the text parsed:           *)
(* [j |-> "empty"], [j |-> "malformed"], [j |-> "array", items] (a JSON   *)
(* array) or [j |-> "object", dependencies] (a JSON object, of pip-audit). *)
(***************************************************************************)
\* str(x) inside an f-string
FormatOpt(opt) == IF opt = None THEN "None" ELSE opt[1]

\* the prefix of the entries that are handled before one raises, and whether
\* one raises: vuln.get('fix_versions', ['latest'])[0] and
\* vuln.get('vulns', [{}])[0] raise IndexError on an empty list
pip_audit_entry_raises(vuln) == vuln.fix_versions = Some(<<>>) \/ vuln.vulns = Some(<<>>)

pip_audit_issue(vuln) ==
    SecurityIssue("HIGH", "Dependencies", "Vulnerable package: " \o FormatOpt(vuln.name),
      "Version " \o FormatOpt(vuln.version) \o " has known vulnerabilities",
      None, None, None,
      Some("Update to version "
           \o (IF vuln.fix_versions = None THEN "latest" ELSE vuln.fix_versions[1][1])),
      IF vuln.vulns = None THEN None ELSE vuln.vulns[1][1].id,
      FALSE)

\* vuln[2] raises IndexError on an entry shorter than three
safety_entry_raises(vuln) == Len(vuln) < 3

safety_issue(vuln) ==
    SecurityIssue("HIGH", "Dependencies", "Vulnerable package: " \o vuln[1], vuln[3],
      None, None, None, Some("Update to safe version"),
      IF Len(vuln) > 1 THEN Some(vuln[2]) ELSE None, FALSE)

\* the number of entries before the first that raises, and those entries
RECURSIVE LeadingFalse(_)
LeadingFalse(flags) ==
    IF flags = <<>> \/ Head(flags) THEN 0 ELSE 1 + LeadingFalse(Tail(flags))
HandledPrefix(entries, raises) == SubSeq(entries, 1, LeadingFalse(raises))

no_scanner_available_low ==
    SecurityIssue("LOW", "Dependencies", "No dependency scanner available",
      "Install pip-audit or safety to scan dependencies",
      None, None, None, Some("pip install pip-audit"), None, FALSE)

\* the issue added when neither pip-audit nor safety is installed
no_scanner_available ==
    SecurityIssue("INFO", "Dependencies", "No dependency scanner available",
      "Install pip-audit or safety to scan dependencies",
      None, None, None, Some("pip install pip-audit"), None, FALSE)

\* safety is started whenever pip-audit has given no report
pip_audit_not_usable(pip_audit) ==
    pip_audit.r # "ran" \/ pip_audit.returncode # 0 \/ pip_audit.stdout.j # "object"

\* except FileNotFoundError: subprocess.run found no pip-audit to start
pip_audit_not_installed(pip_audit) == pip_audit.r = "not_found"

\* SecurityAuditor.scan_dependencies()
scan_dependencies(env) ==
    IF ~env.manifest
    THEN ScanResult(<<>>, <<Written("print", "No requirements.txt or pyproject.toml found")>>, FALSE)
    ELSE IF pip_audit_not_installed(env.pip_audit)
    THEN \* pip-audit is not installed: safety
         IF env.safety.r = "not_found"
         THEN ScanResult(<<no_scanner_available>>, <<>>, FALSE)
         ELSE IF env.safety.r = "timeout" \/ env.safety.stdout.j = "malformed"
         THEN ScanResult(<<>>, <<Written("print", "Error running safety")>>, FALSE)
         ELSE IF env.safety.stdout.j = "empty"
         THEN ScanResult(<<>>, <<>>, FALSE)
         ELSE LET vulns == env.safety.stdout.items
                  done == HandledPrefix(vulns, [k \in 1..Len(vulns) |-> safety_entry_raises(vulns[k])])
              IN ScanResult([k \in 1..Len(done) |-> safety_issue(done[k])],
                            IF Len(done) < Len(vulns)
                            THEN <<Written("print", "Error running safety")>> ELSE <<>>,
                            FALSE)
    ELSE IF env.pip_audit.r = "timeout"
    THEN ScanResult(<<>>, <<Written("print", "Error scanning dependencies")>>, FALSE)
    ELSE IF env.pip_audit.returncode # 0 \/ env.pip_audit.stdout.j \in {"malformed", "empty"}
    THEN ScanResult(<<>>, <<>>, FALSE)
    ELSE IF env.pip_audit.stdout.j = "array"
    THEN ScanResult(<<>>, <<Written("print", "Error scanning dependencies")>>, FALSE)
    ELSE LET deps == env.pip_audit.stdout.dependencies
             done == HandledPrefix(deps, [k \in 1..Len(deps) |-> pip_audit_entry_raises(deps[k])])
         IN ScanResult([k \in 1..Len(done) |-> pip_audit_issue(done[k])],
                       IF Len(done) < Len(deps)
                       THEN <<Written("print", "Error scanning dependencies")>> ELSE <<>>,
                       FALSE)

(***************************************************************************)
(* main()                                                                  *)
(***************************************************************************)
Structured == args.format \in {"json", "html"}

\* the streams after log(msg)
LogOut(msg) == IF Structured THEN stdout ELSE Append(stdout, Written("log", msg))
LogErr(msg) == IF Structured THEN Append(stderr, Written("log", msg)) ELSE stderr

\* self.add_issue(issue) for each issue a scanner finds, in order
RECURSIVE AddAll(_, _)
AddAll(iss, found) ==
    IF found = <<>> THEN iss ELSE AddAll(add_issue(iss, Head(found)), Tail(found))

\* log(msg) and a scanner call of main(); an exception that leaves the
\* scanner ends the process: traceback on the error stream, status 1
RunScanner(msg, r, next) ==
    /\ stdout' = LogOut(msg) \o r.out
    /\ stderr' = LogErr(msg) \o (IF r.raised THEN <<Written("traceback", "")>> ELSE <<>>)
    /\ issues' = AddAll(issues, r.issues)
    /\ pc' = IF r.raised THEN "done" ELSE next
    /\ exit_code' = IF r.raised THEN Some(1) ELSE exit_code

Skip(next) ==
    /\ pc' = next
    /\ UNCHANGED <<stdout, stderr, issues, exit_code>>

StepSettings ==
    /\ pc = "settings"
    /\ IF args.scan \in {"settings", "all"}
       THEN RunScanner("Scanning Django settings...",
                       scan_settings(args.project_root, fs.files), "code")
       ELSE Skip("code")
    /\ UNCHANGED <<args, fs, dep_result, operands, results>>

StepCode ==
    /\ pc = "code"
    /\ IF args.scan \in {"code", "all"}
       THEN RunScanner("Scanning code for vulnerabilities...",
                       scan_code(args.project_root, fs.files), "dependencies")
       ELSE Skip("dependencies")
    /\ UNCHANGED <<args, fs, dep_result, operands, results>>

StepDependencies ==
    /\ pc = "dependencies"
    /\ IF args.scan \in {"dependencies", "all"}
       THEN \E env \in DepEnvs :
               /\ fs.exists \/ ~env.manifest
               /\ RunScanner("Checking dependencies...", scan_dependencies(env),
                             "multi-tenant")
               /\ dep_result' = Some(env)
       ELSE Skip("multi-tenant") /\ UNCHANGED dep_result
    /\ UNCHANGED <<args, fs, operands, results>>

StepMultiTenant ==
    /\ pc = "multi-tenant"
    /\ IF args.scan \in {"multi-tenant", "all"}
       THEN RunScanner("Checking multi-tenant security...",
                       scan_multi_tenant(args.project_root, fs.files), "report")
       ELSE Skip("report")
    /\ UNCHANGED <<args, fs, dep_result, operands, results>>

\* report = auditor.generate_report(format=args.format); print(report), after
\* a line feed unless the format is json
StepReport ==
    /\ pc = "report"
    /\ stdout' = Append(stdout,
                   [kind |-> "report", format |-> args.format,
                    line_feed_first |-> args.format # "json",
                    text |-> generate_report(issues, args.format)])
    /\ pc' = "exit"
    /\ UNCHANGED <<args, fs, issues, stderr, exit_code, dep_result, operands, results>>

\* sys.exit(...)
StepExit ==
    /\ pc = "exit"
    /\ exit_code' = Some(main_exit_code(issues, args.fail_on))
    /\ pc' = "done"
    /\ UNCHANGED <<args, fs, issues, stdout, stderr, dep_result, operands, results>>

NoTree == [exists |-> FALSE, files |-> <<>>]

\* main() after parse_args and SecurityAuditor(args.project_root): the
\* project root is a directory with a tree of files, or does not exist
Init ==
    /\ args \in Args
    /\ fs \in {NoTree} \cup {[exists |-> TRUE, files |-> t] : t \in Trees}
    /\ issues = <<>>
    /\ stdout = <<>>
    /\ stderr = <<>>
    /\ pc = "settings"
    /\ exit_code = None
    /\ dep_result = None
    /\ operands = <<>>
    /\ results = None

Next ==
    \/ StepSettings
    \/ StepCode
    \/ StepDependencies
    \/ StepMultiTenant
    \/ StepReport
    \/ StepExit

Spec == Init /\ [][Next]_vars

(***************************************************************************)
(* The report engine and the exit code on any collection of issues: a      *)
(* caller adds issues through add_issue, then the report is written and    *)
(* the process exits as main() does.                                       *)
(***************************************************************************)
Sample(severity, n) ==
    SecurityIssue(severity, "Sample", "Finding " \o n, "found by a scanner",
                  None, None, None, None, None, FALSE)

IssueSamples ==
    { Sample("CRITICAL", "1"), Sample("HIGH", "2"), Sample("MEDIUM", "3"),
      Sample("LOW", "4"), Sample("INFO", "5"),
      SecurityIssue("CRITICAL", "Secrets", "Hardcoded Password",
                    "Hardcoded Password found in code", Some("proj/app/models.py"),
                    Some(3), Some("password = 'hunter2hunter2'"),
                    Some("Use environment variables"), None, TRUE),
      SecurityIssue("MEDIUM", "Dependencies", "Vulnerable package: django",
                    "Version 2.2 has known vulnerabilities", None, None, None,
                    Some("Update to version 2.2.28"), Some("PYSEC-2021-1"), FALSE) }

AddIssue ==
    /\ pc = "report"
    /\ Len(issues) < MaxIssues
    /\ \E issue \in IssueSamples : issues' = add_issue(issues, issue)
    /\ UNCHANGED <<args, fs, stdout, stderr, pc, exit_code, dep_result, operands, results>>

InitReport ==
    /\ args \in [scan : {"all"}, format : Formats, fail_on : FailOns, project_root : {"proj"}]
    /\ fs = NoTree
    /\ issues = <<>>
    /\ stdout = <<>>
    /\ stderr = <<>>
    /\ pc = "report"
    /\ exit_code = None
    /\ dep_result = None
    /\ operands = <<>>
    /\ results = None

NextReport ==
    \/ AddIssue
    \/ StepReport
    \/ StepExit

SpecReport == InitReport /\ [][NextReport]_vars

(***************************************************************************)
(* The ordering of Severity on any three members                           *)
(***************************************************************************)
Compare ==
    /\ pc = "compare"
    /\ results' = Some([a, b \in 1..Len(operands) |-> SeverityLt(operands[a], operands[b])])
    /\ pc' = "done"
    /\ UNCHANGED <<args, fs, issues, stdout, stderr, exit_code, dep_result, operands>>

InitSeverity ==
    /\ args \in [scan : {"all"}, format : {"text"}, fail_on : {None}, project_root : {"proj"}]
    /\ fs = NoTree
    /\ issues = <<>>
    /\ stdout = <<>>
    /\ stderr = <<>>
    /\ pc = "compare"
    /\ exit_code = None
    /\ dep_result = None
    /\ operands \in [1..3 -> Severities]
    /\ results = None

NextSeverity == Compare

SpecSeverity == InitSeverity /\ [][NextSeverity]_vars

(***************************************************************************)
(* Files put together from single lines                                    *)
(***************************************************************************)
\* the text of a file whose lines are ls, each with its line feed
RECURSIVE JoinLines(_)
JoinLines(ls) == IF ls = <<>> THEN "" ELSE Head(ls) \o "\n" \o JoinLines(Tail(ls))

\* the files of up to MaxLines lines drawn from a set of lines
FilesOfLines(path, lineSet) ==
    {File(path, TRUE, JoinLines(ls)) : ls \in SeqsUpTo(lineSet, MaxLines)}

(***************************************************************************)
(* scan_settings on a settings file put together from single settings      *)
(***************************************************************************)
SettingsLines ==
    { "DEBUG = True", "DEBUG=True", "DEBUG = False",
      "ALLOWED_HOSTS = ['*']", "ALLOWED_HOSTS = ['example.com', '*']",
      "ALLOWED_HOSTS = ['example.com']", "ALLOWED_HOSTS = []",
      "SESSION_COOKIE_SECURE = False", "SESSION_COOKIE_SECURE = True",
      "SECURE_SSL_REDIRECT = False", "SECURE_SSL_REDIRECT = True",
      "SECURE_HSTS_SECONDS = 0", "SECURE_HSTS_SECONDS = 31536000",
      "SECRET_KEY = 'django-insecure-0123456789'",
      "SECRET_KEY = os.environ['DJANGO_SECRET_KEY']",
      "SECRET_KEY = load_key()",
      "DATABASE_URL = os.environ['DATABASE_URL']",
      "EMAIL_HOST = env('EMAIL_HOST')" }

\* auditor.scan_settings(): the settings file is found and read, and the
\* checks add their issues
ScanSettings ==
    /\ pc = "scan_settings"
    /\ LET f == RglobName(fs.files, "settings.py")[1]
       IN  issues' = AddAll(issues, settings_checks(FullPath(args.project_root, f.path), f.content))
    /\ pc' = "done"
    /\ UNCHANGED <<args, fs, stdout, stderr, exit_code, dep_result, operands, results>>

InitSettings ==
    /\ args \in [scan : {"settings"}, format : {"text"}, fail_on : {None}, project_root : {"proj"}]
    /\ fs \in {[exists |-> TRUE, files |-> <<f>>] : f \in FilesOfLines("settings.py", SettingsLines)}
    /\ issues = <<>>
    /\ stdout = <<>>
    /\ stderr = <<>>
    /\ pc = "scan_settings"
    /\ exit_code = None
    /\ dep_result = None
    /\ operands = <<>>
    /\ results = None

NextSettings == ScanSettings

SpecSettings == InitSettings /\ [][NextSettings]_vars

(***************************************************************************)
(* The per-file scanners on a source file put together from single lines   *)
(***************************************************************************)
LongArgument ==
    "a01a02a03a04a05a06a07a08a09a10a11a12a13a14a15a16a17a18a19a20a21a22a23a24a25a26a27a28a29a30a31a32a33b"

CodeLines ==
    { "cursor.execute(\"SELECT * FROM t WHERE id = \" + uid)",
      "cursor.execute(\"SELECT * FROM t WHERE id = %s\" % uid)",
      "qs = Item.objects.raw(f\"SELECT * FROM t WHERE id = {uid}\")",
      "cursor.execute(\"SELECT * FROM t WHERE id = %s\", [uid])",
      "SECRET = \"aVeryLongActualSecretValue123\"",
      "SECRET = os.environ.get(\"aVeryLongActualSecretValue123\")",
      "TOKEN = \"aVeryLongActualSecretValue123\"",
      "PASSWORD = \"aVeryLongActualSecretValue123\"",
      "PASSWORD = \"aVeryLongActualSecretValue123\" or os.environ[\"PW\"]",
      "PASSWORD = \"changeme\"",
      "API_KEY = \"your-secret-key\"",
      "result = eval(" \o LongArgument \o ")",
      "f = open(request.GET[\"path\"])",
      "name = request.GET[\"name\"]",
      "items = Item.objects.all()",
      "items = Item.objects.all().filter(tenant=tenant)" }

\* self._scan_file_for_vulnerabilities(file_path, content, lines) as
\* scan_code calls it on one file
ScanFile ==
    /\ pc = "scan_file"
    /\ LET f == fs.files[1]
       IN  issues' = AddAll(issues,
                       scan_file_for_vulnerabilities(FullPath(args.project_root, f.path),
                                                     f.content, SplitLines(f.content)))
    /\ pc' = "scan_file_tenancy"
    /\ UNCHANGED <<args, fs, stdout, stderr, exit_code, dep_result, operands, results>>

\* self._scan_file_for_multi_tenant_issues(file_path, lines) as
\* scan_multi_tenant calls it on one file
ScanFileTenancy ==
    /\ pc = "scan_file_tenancy"
    /\ LET f == fs.files[1]
       IN  issues' = AddAll(issues,
                       scan_file_for_multi_tenant_issues(FullPath(args.project_root, f.path),
                                                         ReadLines(f.content)))
    /\ pc' = "done"
    /\ UNCHANGED <<args, fs, stdout, stderr, exit_code, dep_result, operands, results>>

InitCode ==
    /\ args \in [scan : {"all"}, format : {"text"}, fail_on : {None}, project_root : {"proj"}]
    /\ fs \in {[exists |-> TRUE, files |-> <<f>>] : f \in FilesOfLines("app/views.py", CodeLines)}
    /\ issues = <<>>
    /\ stdout = <<>>
    /\ stderr = <<>>
    /\ pc = "scan_file"
    /\ exit_code = None
    /\ dep_result = None
    /\ operands = <<>>
    /\ results = None

NextCode ==
    \/ ScanFile
    \/ ScanFileTenancy

SpecCode == InitCode /\ [][NextCode]_vars

(***************************************************************************)
(* main() with --scan code, multi-tenant or all on a project whose root is  *)
(* given by a path with or without 'venv' in it                            *)
(***************************************************************************)
InitRoots ==
    /\ args \in [scan : {"code", "multi-tenant", "all"}, format : {"text"}, fail_on : {None},
                  project_root : ProjectRoots \cup VenvRoots]
    /\ fs \in {[exists |-> TRUE, files |-> t] : t \in Trees}
    /\ issues = <<>>
    /\ stdout = <<>>
    /\ stderr = <<>>
    /\ pc = "settings"
    /\ exit_code = None
    /\ dep_result = None
    /\ operands = <<>>
    /\ results = None

SpecRoots == InitRoots /\ [][Next]_vars

(***************************************************************************)
(* Properties                                                              *)
(***************************************************************************)
\* the place of a severity in Critical > High > Medium > Low > Info
Rank(s) == CHOOSE k \in 1..Len(Severity) : Severity[k] = s

MoreSevere(a, b) == Rank(a) < Rank(b)

SeveritiesOf(iss) == {iss[k].severity : k \in 1..Len(iss)}

\* the reports written to standard output
ReportsWritten == SelectSeq(stdout, LAMBDA w : w.kind = "report")

Exited == pc = "done" /\ exit_code # None

\* C1: without --fail-on the process exits 0 exactly when no finding is
\* Critical or High, and 1 otherwise, whatever the collection of findings.
C1_DefaultExitCode ==
    (Exited /\ args.fail_on = None) =>
        /\ exit_code \in {Some(0), Some(1)}
        /\ exit_code = Some(0) <=> SeveritiesOf(issues) \cap {"CRITICAL", "HIGH"} = {}

\* C1, its case: a run without --fail-on whose findings are Medium, Low and
\* Info together has exited 0.
C1_Witness ==
    /\ Exited /\ args.fail_on = None
    /\ SeveritiesOf(issues) = {"MEDIUM", "LOW", "INFO"}
    /\ exit_code = Some(0)

\* C2: with --fail-on T the process exits 1 exactly when some finding is at
\* or above T in Critical > High > Medium > Low > Info.
C2_FailOnThreshold ==
    (Exited /\ args.fail_on # None) =>
        (exit_code = Some(1) <=>
            \E k \in 1..Len(issues) :
                Rank(issues[k].severity) <= Rank(fail_severity(args.fail_on[1])))

\* C3: a project root that does not exist ends the run before any scanner
\* is started, with a nonzero status and without a report.
C3_MissingRootIsFatal ==
    ~fs.exists =>
        /\ \A k \in 1..Len(stdout) : stdout[k].kind \notin {"log", "report"}
        /\ \A k \in 1..Len(stderr) : stderr[k].kind # "log"
        /\ pc = "done" => exit_code \notin {None, Some(0)}

\* C4: a file that cannot be opened or decoded never aborts the run: the
\* run ends with a report written and with the status its findings decide.
C4_UnreadableFileNeverAborts ==
    pc = "done" =>
        /\ ReportsWritten # <<>>
        /\ exit_code = Some(main_exit_code(issues, args.fail_on))

\* C5: with the format json or html a run over an existing project root
\* writes nothing but the report to standard output.
C5_StructuredOutputIsClean ==
    (Structured /\ fs.exists) => \A k \in 1..Len(stdout) : stdout[k].kind = "report"

\* the lines of the text report that was written
TextLines == ReportsWritten[1].text

TextReportWritten ==
    args.format = "text" /\ pc \in {"exit", "done"} /\ ReportsWritten # <<>>

SectionHeads(rep) == {k \in 1..Len(rep) : rep[k][1] = "Section"}

\* the lines below the heading at line k, up to the next rule
SectionBody(rep, k) ==
    LET rules == {j \in (k + 2)..Len(rep) : rep[j][1] \in {"rule-", "rule="}}
        stop  == Min(rules)
        last  == IF rep[stop][1] = "rule=" THEN stop - 2 ELSE stop - 1
    IN  SubSeq(rep, k + 2, last)

BannerCounts(rep) == SelectSeq(rep, LAMBDA l : l[1] = "Count")

BannerTotal(rep) == SelectSeq(rep, LAMBDA l : l[1] = "Total")[1][2]

\* C6: the text report is a stable partition of the findings by severity:
\* the sections come in descending severity, one for each severity that has
\* findings, each holds exactly the findings of its severity in discovery
\* order, and the banner's counts are those of the sections and sum to the
\* total.
C6_TextReportIsStablePartition ==
    TextReportWritten =>
        LET rep == TextLines IN
        /\ \A h, k \in SectionHeads(rep) :
              h < k => MoreSevere(rep[h][2], rep[k][2])
        /\ {rep[k][2] : k \in SectionHeads(rep)} = SeveritiesOf(issues)
        /\ \A k \in SectionHeads(rep) :
              LET mine == SelectSeq(issues, LAMBDA i : i.severity = rep[k][2]) IN
              /\ rep[k][3] = Len(mine)
              /\ SectionBody(rep, k) = Flatten([j \in 1..Len(mine) |-> issue_block(mine[j])])
        /\ Len(SelectSeq(rep, LAMBDA l : l[1] = "Issue")) = Len(issues)
        /\ LET counts == BannerCounts(rep) IN
              /\ \A j \in 1..Len(counts) :
                    \E k \in SectionHeads(rep) :
                        rep[k][2] = counts[j][2] /\ rep[k][3] = counts[j][3]
              /\ Len(counts) = Cardinality(SectionHeads(rep))
              /\ SumSeq([j \in 1..Len(counts) |-> counts[j][3]]) = BannerTotal(rep)
        /\ BannerTotal(rep) = Len(issues)

\* C6, its case: a text report of three findings where two different
\* findings of one severity were discovered around one of a higher severity.
C6_Witness ==
    /\ TextReportWritten /\ pc = "done"
    /\ Len(issues) >= 3
    /\ issues[1].severity = issues[3].severity
    /\ issues[1] # issues[3]
    /\ MoreSevere(issues[2].severity, issues[1].severity)

\* the severities of the findings as a json or html report lists them
ListedSeverities(w) ==
    IF w.format = "json"
    THEN [k \in 1..Len(w.text.issues) |-> w.text.issues[k].severity]
    ELSE LET divs == SelectSeq(w.text, LAMBDA l : l[1] = "div")
         IN  [k \in 1..Len(divs) |-> divs[k][3]]

\* C7: the issues array of the json report and the findings of the html
\* report are listed by severity, the most severe first.
C7_StructuredReportsAreSorted ==
    (Structured /\ fs.exists /\ ReportsWritten # <<>>) =>
        LET listed == ListedSeverities(ReportsWritten[1]) IN
        \A j, k \in 1..Len(listed) :
            j < k => ~MoreSevere(listed[k], listed[j])

\* what a json run writes as its report when the traversal enumerates the
\* files in the order t: the report of the findings of the scanners that
\* --scan selects, or none when the settings scanner raises
JsonOutput(scan, root, t, dep) ==
    LET settings == IF scan \in {"settings", "all"}
                    THEN scan_settings(root, t) ELSE ScanResult(<<>>, <<>>, FALSE)
        code     == IF scan \in {"code", "all"}
                    THEN scan_code(root, t).issues ELSE <<>>
        deps     == IF scan \in {"dependencies", "all"}
                    THEN scan_dependencies(dep[1]).issues ELSE <<>>
        tenancy  == IF scan \in {"multi-tenant", "all"}
                    THEN scan_multi_tenant(root, t).issues ELSE <<>>
    IN  IF settings.raised
        THEN None
        ELSE Some(generate_json_report(settings.issues \o code \o deps \o tenancy))

FilesOf(t) == {t[k] : k \in 1..Len(t)}

JsonReportWritten ==
    args.format = "json" /\ pc \in {"exit", "done"} /\ ReportsWritten # <<>>

\* C8: the json report of a run over a tree of readable files is the same
\* for every order in which the traversal can enumerate the files.
C8_JsonIndependentOfTraversalOrder ==
    (JsonReportWritten /\ fs.exists /\ \A f \in FilesOf(fs.files) : f.readable) =>
        \A t \in Trees :
            FilesOf(t) = FilesOf(fs.files) =>
                JsonOutput(args.scan, args.project_root, t, dep_result)
                    = Some(ReportsWritten[1].text)

IssueFields ==
    {"severity", "category", "title", "description", "file_path", "line_number",
     "code_snippet", "recommendation", "cve", "auto_fixable"}

\* C9: in the json report total_issues is the length of the issues array,
\* which lists every finding; by_severity gives each of the five severities
\* its count among them, the counts sum to total_issues; and every issue
\* object has all ten fields.
C9_JsonReportShape ==
    JsonReportWritten =>
        LET r == ReportsWritten[1].text IN
        /\ r.total_issues = Len(r.issues)
        /\ Len(r.issues) = Len(issues)
        /\ Len(r.by_severity) = Len(Severity)
        /\ \A k \in 1..Len(Severity) :
              /\ r.by_severity[k][1] = SeverityValue(Severity[k])
              /\ r.by_severity[k][2] =
                    Cardinality({j \in 1..Len(r.issues) :
                                    r.issues[j].severity = r.by_severity[k][1]})
        /\ SumSeq([k \in 1..Len(r.by_severity) |-> r.by_severity[k][2]]) = r.total_issues
        /\ \A j \in 1..Len(r.issues) : DOMAIN r.issues[j] = IssueFields

\* C9, its case: a json report of findings of at least two severities.
C9_Witness ==
    /\ JsonReportWritten /\ pc = "done"
    /\ Cardinality(SeveritiesOf(issues)) >= 2
    /\ ReportsWritten[1].text.total_issues >= 2

Compared == pc = "done" /\ results # None

\* C10 as the specification states it: for a more severe than b, a < b is
\* false.
C10_MoreSevereIsNotLess ==
    Compared =>
        \A a, b \in 1..Len(operands) :
            MoreSevere(operands[a], operands[b]) => results[1][a, b] = FALSE

\* C10: for a more severe than b, a < b is true and b < a is false; a
\* severity is not less than itself.
C10_MoreSevereIsLess ==
    Compared =>
        \A a, b \in 1..Len(operands) :
            /\ MoreSevere(operands[a], operands[b]) =>
                  results[1][a, b] = TRUE /\ results[1][b, a] = FALSE
            /\ operands[a] = operands[b] => results[1][a, b] = FALSE

\* C10, its case: Critical, High and Info have been compared.
C10_Witness ==
    /\ Compared
    /\ operands = <<"CRITICAL", "HIGH", "INFO">>
    /\ results[1][1, 2] /\ results[1][2, 3] /\ ~results[1][3, 1]

\* C11: the ordering of Severity is a strict total order on exactly the
\* five levels: a < b has a value for every pair of levels, no level is less
\* than itself, a < b and b < c give a < c, and of two different levels
\* exactly one is less than the other.
C11_StrictTotalOrder ==
    Compared =>
        LET n == Len(operands)
            lt(a, b) == results[1][a, b]
        IN  /\ Cardinality(Severities) = 5
            /\ \A a \in 1..n : operands[a] \in Severities
            /\ DOMAIN results[1] = (1..n) \X (1..n)
            /\ \A a, b \in 1..n : lt(a, b) \in BOOLEAN
            /\ \A a, b \in 1..n : operands[a] = operands[b] => ~lt(a, b)
            /\ \A a, b, c \in 1..n : lt(a, b) /\ lt(b, c) => lt(a, c)
            /\ \A a, b \in 1..n :
                  operands[a] # operands[b] => (lt(a, b) <=> ~lt(b, a))

\* C11, its case: three different levels, next to each other and apart,
\* have been compared in every pair.
C11_Witness ==
    /\ Compared
    /\ operands = <<"MEDIUM", "INFO", "HIGH">>
    /\ results[1][3, 1] /\ results[1][1, 2] /\ results[1][3, 2]
    /\ ~results[1][2, 2]

\* C12: findings are only ever appended: in every step of a run the
\* sequence of findings before the step is a prefix of the sequence after
\* it, and writing the report and computing the exit status leave the
\* sequence as it is.
C12_FindingsAppendOnly ==
    [][/\ Len(issues) <= Len(issues')
       /\ SubSeq(issues', 1, Len(issues)) = issues
       /\ pc \in {"report", "exit"} => issues' = issues]_vars

\* C12, its case: a run in which the settings scanner and then another
\* scanner added findings has written its report and exited.
C12_Witness ==
    /\ Exited /\ ReportsWritten # <<>>
    /\ \E j, k \in 1..Len(issues) :
          j < k /\ issues[j].category = "Settings" /\ issues[k].category # "Settings"

\* the lines of the one file of the tree, without their line feeds
FileLines == SplitLines(fs.files[1].content)

\* C13: no finding of any scanner has a snippet of more than 100
\* characters.
C13_SnippetsAreBounded ==
    \A k \in 1..Len(issues) :
        issues[k].code_snippet # None => Len(issues[k].code_snippet[1]) <= 100

DebugEnabledLines == {"DEBUG = True", "DEBUG=True"}

SettingsScanned == pc = "done" /\ args.scan = "settings" /\ Len(fs.files) = 1

\* C14: the scan of a settings file that sets DEBUG to True, once or more
\* than once, gives exactly one finding "DEBUG enabled", which is Critical,
\* and no other finding that names the flag.
C14_DebugEnabledOnce ==
    (SettingsScanned /\ \E i \in 1..Len(FileLines) : FileLines[i] \in DebugEnabledLines) =>
        /\ Cardinality({k \in 1..Len(issues) : issues[k].title = "DEBUG enabled"}) = 1
        /\ \A k \in 1..Len(issues) :
              Contains(issues[k].title, "DEBUG") =>
                  /\ issues[k].title = "DEBUG enabled"
                  /\ issues[k].severity = "CRITICAL"
                  /\ issues[k].category = "Settings"

\* C14, its case: a settings file that sets DEBUG to True on two lines has
\* been scanned.
C14_Witness ==
    /\ SettingsScanned
    /\ FileLines = <<"DEBUG=True", "DEBUG = True">>
    /\ Cardinality({k \in 1..Len(issues) :
                      issues[k].title = "DEBUG enabled" /\ issues[k].severity = "CRITICAL"}) = 1

WildcardHostsLines == {"ALLOWED_HOSTS = ['*']", "ALLOWED_HOSTS = ['example.com', '*']"}

PlainHostsLines == {"ALLOWED_HOSTS = ['example.com']", "ALLOWED_HOSTS = []"}

\* C15: the scan of a settings file with one ALLOWED_HOSTS list gives
\* exactly one High finding "ALLOWED_HOSTS wildcard" when the list has the
\* entry '*' at any place, and none when it has no such entry.
C15_WildcardHostAnywhere ==
    SettingsScanned =>
        LET hosts == SelectSeq(FileLines, LAMBDA l : l \in WildcardHostsLines \cup PlainHostsLines)
        IN  Len(hosts) = 1 =>
               Cardinality({k \in 1..Len(issues) :
                               /\ issues[k].title = "ALLOWED_HOSTS wildcard"
                               /\ issues[k].severity = "HIGH"})
                  = IF hosts[1] \in WildcardHostsLines THEN 1 ELSE 0

FileScanned == pc \in {"scan_file_tenancy", "done"} /\ Len(fs.files) = 1

\* the lines with a call of .raw( or .execute( whose query is put together
\* by concatenation, by % interpolation or in an f-string
BuiltQueryLines ==
    { "cursor.execute(\"SELECT * FROM t WHERE id = \" + uid)",
      "cursor.execute(\"SELECT * FROM t WHERE id = %s\" % uid)",
      "qs = Item.objects.raw(f\"SELECT * FROM t WHERE id = {uid}\")" }

\* C16: for every line of a source file that calls .raw( or .execute( with
\* a query built by concatenation or interpolation there is a Critical
\* finding of category "SQL Injection" with the number of that line,
\* counted from 1, and the path of the file.
C16_BuiltQueryIsFound ==
    FileScanned =>
        \A i \in 1..Len(FileLines) :
            FileLines[i] \in BuiltQueryLines =>
                \E k \in 1..Len(issues) :
                    /\ issues[k].severity = "CRITICAL"
                    /\ issues[k].category = "SQL Injection"
                    /\ issues[k].line_number = Some(i)
                    /\ issues[k].file_path = Some(FullPath(args.project_root, fs.files[1].path))

\* the lines that assign a string literal to a name of the secret
\* vocabulary: the literal, and whether the line uses an accessor of the
\* environment
SecretAssignments ==
    { [line |-> "SECRET = \"aVeryLongActualSecretValue123\"",
       literal |-> "aVeryLongActualSecretValue123", accessor |-> FALSE],
      [line |-> "TOKEN = \"aVeryLongActualSecretValue123\"",
       literal |-> "aVeryLongActualSecretValue123", accessor |-> FALSE],
      [line |-> "PASSWORD = \"aVeryLongActualSecretValue123\"",
       literal |-> "aVeryLongActualSecretValue123", accessor |-> FALSE],
      [line |-> "PASSWORD = \"aVeryLongActualSecretValue123\" or os.environ[\"PW\"]",
       literal |-> "aVeryLongActualSecretValue123", accessor |-> TRUE],
      [line |-> "PASSWORD = \"changeme\"", literal |-> "changeme", accessor |-> FALSE],
      [line |-> "API_KEY = \"your-secret-key\"", literal |-> "your-secret-key",
       accessor |-> FALSE] }

\* C17: a line that assigns a string literal to a name of the secret
\* vocabulary gives one Critical secret finding on that line exactly when
\* the literal is longer than 10 characters, is no placeholder and the line
\* uses no accessor of the environment, and gives none otherwise; so does
\* the line SECRET = "aVeryLongActualSecretValue123".
C17_SecretAssignmentIsFound ==
    FileScanned =>
        \A i \in 1..Len(FileLines) :
            \A a \in SecretAssignments :
                FileLines[i] = a.line =>
                    Cardinality({k \in 1..Len(issues) :
                                    /\ issues[k].category = "Secrets"
                                    /\ issues[k].severity = "CRITICAL"
                                    /\ issues[k].line_number = Some(i)})
                      = IF /\ Len(a.literal) > 10
                           /\ a.literal \notin {"changeme", "dummy", "your-secret-key"}
                           /\ ~a.accessor
                        THEN 1 ELSE 0

\* what the dependency scanner met, once it has run
DepEnv == dep_result[1]

DependenciesScanned == dep_result # None

DependencyFindings == SelectSeq(issues, LAMBDA i : i.category = "Dependencies")

OtherFindings == SelectSeq(issues, LAMBDA i : i.category # "Dependencies")

\* the run goes on after the dependency scanner: the tenancy scanner is
\* started when --scan asks for it, the report is written and the process
\* exits with the status of its findings
RunGoesOn ==
    /\ (pc \in {"report", "exit", "done"} /\ args.scan = "all") =>
          \E k \in 1..Len(stdout \o stderr) :
              (stdout \o stderr)[k] = Written("log", "Checking multi-tenant security...")
    /\ pc = "done" =>
          /\ ReportsWritten # <<>>
          /\ exit_code = Some(main_exit_code(issues, args.fail_on))

ToolsAbsent(env) == env.pip_audit.r = "not_found" /\ env.safety.r = "not_found"

\* C18 as the specification states it: a dependency scan while neither
\* pip-audit nor safety can be started adds exactly one finding, of severity
\* Info, and the run goes on.
C18_AbsentToolsGiveOneInfo ==
    (DependenciesScanned /\ ToolsAbsent(DepEnv)) =>
        /\ Len(DependencyFindings) = 1
        /\ DependencyFindings[1].severity = "INFO"
        /\ RunGoesOn

\* C18: a dependency scan of a project with a requirements file, while
\* neither pip-audit nor safety can be started, adds exactly one finding, of
\* severity Info, and the run goes on.
C18_AbsentToolsWithManifestGiveOneInfo ==
    (DependenciesScanned /\ DepEnv.manifest /\ ToolsAbsent(DepEnv)) =>
        /\ Len(DependencyFindings) = 1
        /\ DependencyFindings[1].severity = "INFO"
        /\ RunGoesOn

\* C18, its case: a run of all scanners, with a requirements file and both
\* tools missing, has found other issues too, written its report and
\* exited.
C18_Witness ==
    /\ Exited /\ args.scan = "all"
    /\ DependenciesScanned /\ DepEnv.manifest /\ ToolsAbsent(DepEnv)
    /\ Len(DependencyFindings) = 1
    /\ OtherFindings # <<>>
    /\ ReportsWritten # <<>>

\* the tool that was started timed out, or wrote what is not JSON, JSON of
\* the wrong shape, or an entry too short for the scanner
ToolFailed(env) ==
    /\ env.manifest
    /\ \/ env.pip_audit.r = "timeout"
       \/ /\ env.pip_audit.r = "ran"
          /\ env.pip_audit.returncode = 0
          /\ env.pip_audit.stdout.j \in {"malformed", "array"}
       \/ /\ env.pip_audit.r = "not_found"
          /\ \/ env.safety.r = "timeout"
             \/ /\ env.safety.r = "ran"
                /\ \/ env.safety.stdout.j = "malformed"
                   \/ /\ env.safety.stdout.j = "array"
                      /\ \E k \in 1..Len(env.safety.stdout.items) :
                            Len(env.safety.stdout.items[k]) < 3

\* C19: when the tool's output is unparsable or malformed, or the tool
\* times out, the dependency scanner adds no finding, the run goes on, and
\* the exit status is that of the other findings.
C19_FailedToolGivesNothing ==
    (DependenciesScanned /\ ToolFailed(DepEnv)) =>
        /\ DependencyFindings = <<>>
        /\ RunGoesOn
        /\ pc = "done" => exit_code = Some(main_exit_code(OtherFindings, args.fail_on))

\* the vulnerable packages a tool's well-formed output reports: name and
\* reference id
ReportedPackages(env) ==
    IF env.pip_audit.r = "ran"
    THEN LET d == env.pip_audit.stdout.dependencies
             v == SelectSeq(d, LAMBDA e : e.vulns # None /\ e.vulns # Some(<<>>))
         IN  [k \in 1..Len(v) |-> [name |-> v[k].name[1], id |-> v[k].vulns[1][1].id]]
    ELSE LET v == env.safety.stdout.items
         IN  [k \in 1..Len(v) |-> [name |-> v[k][1], id |-> Some(v[k][2])]]

\* the tool ran and wrote JSON of the shape the scanner reads, every entry
\* complete
WellFormedReport(env) ==
    /\ env.manifest
    /\ \/ env.pip_audit.r = "ran" /\ env.pip_audit.stdout.j = "object"
       \/ /\ env.pip_audit.r = "not_found"
          /\ env.safety.r = "ran" /\ env.safety.stdout.j = "array"
          /\ \A k \in 1..Len(env.safety.stdout.items) :
                Len(env.safety.stdout.items[k]) >= 3

\* C20: when the tool runs and writes well-formed JSON that reports N
\* vulnerable packages, the dependency scanner adds exactly N findings, each
\* of severity High, one for each package with its name and reference id.
C20_OneFindingPerVulnerablePackage ==
    (DependenciesScanned /\ WellFormedReport(DepEnv)) =>
        LET reported == ReportedPackages(DepEnv) IN
        /\ Len(DependencyFindings) = Len(reported)
        /\ \A k \in 1..Len(DependencyFindings) :
              /\ DependencyFindings[k].severity = "HIGH"
              /\ DependencyFindings[k].title = "Vulnerable package: " \o reported[k].name
              /\ DependencyFindings[k].cve = reported[k].id

\* C21: the scan of a settings file that has no DEBUG assignment at all
\* gives a Medium finding about the missing flag.
C21_AbsentDebugIsReported ==
    (SettingsScanned /\ \A i \in 1..Len(FileLines) : ~Contains(FileLines[i], "DEBUG")) =>
        \E k \in 1..Len(issues) :
            issues[k].severity = "MEDIUM" /\ Contains(issues[k].title, "DEBUG")

\* the transport-security settings: HTTPS redirect, the two secure-cookie
\* flags and the strict-transport-security duration
TransportSettings ==
    {"SECURE_SSL_REDIRECT", "SESSION_COOKIE_SECURE", "CSRF_COOKIE_SECURE", "SECURE_HSTS_SECONDS"}

DisabledTransportLines ==
    {"SECURE_SSL_REDIRECT = False", "SESSION_COOKIE_SECURE = False", "SECURE_HSTS_SECONDS = 0"}

\* the lines of the file that assign the setting
LinesOf(setting) == SelectSeq(FileLines, LAMBDA l : Contains(l, setting \o " = "))

\* the findings whose title names the setting
FindingsAbout(setting) == {k \in 1..Len(issues) : Contains(issues[k].title, setting)}

\* what C22 asks for one setting: one Medium finding when it is missing, one
\* High finding when it is disabled, none when it has a safe value
TransportSettingChecked(setting) ==
    LET own == LinesOf(setting)
        about == FindingsAbout(setting)
    IN  Len(own) <= 1 =>
           IF own = <<>>
           THEN Cardinality(about) = 1 /\ \A k \in about : issues[k].severity = "MEDIUM"
           ELSE IF own[1] \in DisabledTransportLines
           THEN Cardinality(about) = 1 /\ \A k \in about : issues[k].severity = "HIGH"
           ELSE about = {}

\* C22: each transport-security setting is checked on its own: exactly one
\* Medium finding when it is missing, exactly one High finding when it is
\* disabled, none when it is safe, whatever the other settings are.
C22_TransportSettingsIndependent ==
    SettingsScanned => \A setting \in TransportSettings : TransportSettingChecked(setting)

AccessorLines ==
    {"SECRET_KEY = os.environ['DJANGO_SECRET_KEY']", "DATABASE_URL = os.environ['DATABASE_URL']",
     "EMAIL_HOST = env('EMAIL_HOST')"}

QuotedSecretKeyLines == {"SECRET_KEY = 'django-insecure-0123456789'"}

HardcodedKeyFindings ==
    {k \in 1..Len(issues) : issues[k].title = "Hardcoded SECRET_KEY" /\ issues[k].category = "Settings"}

\* C30: the settings scan gives the Critical finding "Hardcoded SECRET_KEY"
\* exactly when the file assigns a quoted literal to SECRET_KEY and no line
\* of the whole file has an environment accessor ('os.environ' or 'env(');
\* one accessor on an unrelated line is enough to suppress the finding.
C30_HardcodedKeyUnlessAccessorAnywhere ==
    SettingsScanned =>
        /\ HardcodedKeyFindings # {} <=>
               /\ \E i \in 1..Len(FileLines) : FileLines[i] \in QuotedSecretKeyLines
               /\ \A i \in 1..Len(FileLines) : FileLines[i] \notin AccessorLines
        /\ Cardinality(HardcodedKeyFindings) <= 1
        /\ \A k \in HardcodedKeyFindings : issues[k].severity = "CRITICAL"

\* C30, its case: a file with the quoted key and an accessor on another,
\* unrelated line has been scanned and has no such finding.
C30_Witness ==
    /\ SettingsScanned
    /\ FileLines = <<"SECRET_KEY = 'django-insecure-0123456789'",
                     "DATABASE_URL = os.environ['DATABASE_URL']">>
    /\ HardcodedKeyFindings = {}

\* the lines that build a file path (open(, Path( or os.path.join() from a
\* value of the request
PathConstructionLines == {"f = open(request.GET[\"path\"])"}

\* C23: a High finding of category "Path Traversal" is given for a line
\* only if the line has a call of open(, Path( or os.path.join( with a value
\* of the user or the request in its arguments; a line that mentions a
\* request value without building a file path gives no such finding.
C23_PathTraversalNeedsPathCall ==
    FileScanned =>
        \A k \in 1..Len(issues) :
            issues[k].category = "Path Traversal" =>
                /\ issues[k].severity = "HIGH"
                /\ issues[k].line_number # None
                /\ FileLines[issues[k].line_number[1]] \in PathConstructionLines

\* the lines with a call of .objects.all(): without and with a tenant
\* predicate on the same line
UnqualifiedAllLines == {"items = Item.objects.all()"}

QualifiedAllLines == {"items = Item.objects.all().filter(tenant=tenant)"}

\* the lines of the file that have the Medium finding of the tenancy scanner
\* about an unfiltered .all() query
UnfilteredQueryLines ==
    {i \in 1..Len(FileLines) :
        \E k \in 1..Len(issues) :
            /\ issues[k].category = "Multi-Tenant"
            /\ issues[k].title = "Unfiltered query - potential tenant leak"
            /\ issues[k].severity = "MEDIUM"
            /\ issues[k].line_number = Some(i)}

\* C24: the tenancy scanner gives a line with .objects.all() its Medium
\* finding exactly when the query is not qualified on that line by a tenant
\* predicate; .objects.all().filter(tenant=...) gives no finding.
C24_QualifiedAllIsNotFlagged ==
    (FileScanned /\ pc = "done") =>
        \A i \in 1..Len(FileLines) :
            FileLines[i] \in UnqualifiedAllLines \cup QualifiedAllLines =>
                (i \in UnfilteredQueryLines <=> FileLines[i] \in UnqualifiedAllLines)

\* the scanner of main() has run to its end on the tree
CodeScannerRan ==
    /\ args.scan \in {"code", "all"}
    /\ pc \in {"dependencies", "multi-tenant", "report", "exit"} \/ ReportsWritten # <<>>

TenancyScannerRan ==
    /\ args.scan \in {"multi-tenant", "all"}
    /\ pc \in {"report", "exit"} \/ ReportsWritten # <<>>

\* the findings of a category whose path is that of the file
FindingsIn(path, categories) ==
    SelectSeq(issues, LAMBDA i : i.category \in categories
                                  /\ i.file_path = Some(FullPath(args.project_root, path)))

CodeCategories == {"SQL Injection", "XSS", "Secrets", "Dangerous Functions", "Path Traversal"}

InTree(path) == \E j \in 1..Len(fs.files) : fs.files[j].path = path /\ fs.files[j].readable

\* C25: no finding of the tenancy scanner is about an admin.py file; the
\* exemption is the tenancy scanner's alone: the code scanner scans such a
\* file like any other and reports what it finds there.
C25_AdminExemptFromTenancyOnly ==
    /\ \A k \in 1..Len(issues) :
          issues[k].category = "Multi-Tenant" => ~Contains(issues[k].file_path[1], "admin.py")
    /\ (CodeScannerRan /\ InTree("app/admin.py")) =>
          \E k \in 1..Len(issues) :
              /\ issues[k].category = "XSS"
              /\ issues[k].file_path = Some(FullPath(args.project_root, "app/admin.py"))
              /\ issues[k].line_number = Some(2)

\* C25, its case: both scanners have run on a tree with app/views.py and
\* app/admin.py, which both have an unfiltered .objects.all(): the tenancy
\* finding is there for views.py and not for admin.py, and admin.py has its
\* finding of the code scanner.
C25_Witness ==
    /\ CodeScannerRan /\ TenancyScannerRan
    /\ InTree("app/admin.py") /\ InTree("app/views.py")
    /\ FindingsIn("app/views.py", {"Multi-Tenant"}) # <<>>
    /\ FindingsIn("app/admin.py", {"Multi-Tenant"}) = <<>>
    /\ FindingsIn("app/admin.py", CodeCategories) # <<>>

\* the settings file of the run is the catalogue's readable app/settings.py,
\* which assigns SECRET_KEY a literal of 26 characters on its line 2 and has
\* no accessor of the environment
HardcodedKeySettings ==
    /\ RglobName(fs.files, "settings.py") # <<>>
    /\ RglobName(fs.files, "settings.py")[1] = File("app/settings.py", TRUE, InsecureSettings)

\* the findings "Hardcoded SECRET_KEY" about that file, of one category
HardcodedKeyIn(category) ==
    {k \in 1..Len(issues) :
        /\ issues[k].title = "Hardcoded SECRET_KEY"
        /\ issues[k].category = category
        /\ issues[k].severity = "CRITICAL"
        /\ issues[k].file_path = Some(FullPath(args.project_root, "app/settings.py"))}

C26_ExitCodeMonotone ==
    [][get_exit_code(issues) = 1 => get_exit_code(issues') = 1]_vars

\* C26, its case: a Critical or High finding was added and findings below
\* High were added after it; get_exit_code() is still 1 when the process
\* has the report written.
C26_Witness ==
    /\ Len(issues) >= 2
    /\ issues[1].severity \in {"CRITICAL", "HIGH"}
    /\ \A k \in 2..Len(issues) : issues[k].severity \in {"MEDIUM", "LOW", "INFO"}
    /\ pc = "exit"
    /\ get_exit_code(issues) = 1

\* pip-audit was started and gave no report: it timed out, exited with a
\* status other than 0, or wrote what is not JSON
PipAuditStartedAndFailed(env) ==
    /\ env.manifest
    /\ \/ env.pip_audit.r = "timeout"
       \/ /\ env.pip_audit.r = "ran"
          /\ env.pip_audit.returncode # 0 \/ env.pip_audit.stdout.j \in {"malformed", "empty"}

\* what only a run of safety leaves behind: its findings and its error line
SafetyTraces ==
    /\ \A k \in 1..Len(issues) : issues[k].recommendation # Some("Update to safe version")
    /\ \A k \in 1..Len(stdout) : stdout[k] # Written("print", "Error running safety")

\* C29: safety is started only when pip-audit could not be started because
\* it is not installed; when pip-audit was started and exited with a status
\* other than 0, timed out or wrote unparsable output, safety is not
\* started, although it would report a package, and the scan adds no
\* finding.
C29_SafetyOnlyWithoutPipAudit ==
    DependenciesScanned =>
        /\ (DepEnv.manifest /\ DepEnv.pip_audit.r # "not_found") => SafetyTraces
        /\ PipAuditStartedAndFailed(DepEnv) => DependencyFindings = <<>>

\* C29, its case: pip-audit exited with status 1 where safety would report
\* a vulnerable package, the scanner has returned and the run has no
\* dependency finding.
C29_Witness ==
    /\ DependenciesScanned
    /\ DepEnv.manifest
    /\ DepEnv.pip_audit.r = "ran" /\ DepEnv.pip_audit.returncode = 1
    /\ DepEnv.safety = SafetyReports
    /\ pc = "done"
    /\ DependencyFindings = <<>>

\* 'venv' or 'migrations' is in the string of the path
PassedOver(path) == Contains(path, "venv") \/ Contains(path, "migrations")

\* what a scanner reports about one python file of the tree: nothing when
\* the full path of the file, from the project root as it was given to the
\* file name, is passed over, and all that the per-file scan finds otherwise
ReportedOrSkipped(f) ==
    LET found == FileFindings[args.project_root][f]
        passed == PassedOver(FullPath(args.project_root, f.path))
    IN  /\ CodeScannerRan =>
              FindingsIn(f.path, CodeCategories) = IF passed THEN <<>> ELSE found.code
        /\ TenancyScannerRan =>
              FindingsIn(f.path, {"Multi-Tenant"}) = IF passed THEN <<>> ELSE found.multi_tenant

\* C27: the code scanner and the tenancy scanner skip a file exactly when
\* the string of its full path, project root and file name included, has
\* 'venv' or 'migrations' in it; so a project whose root path has one of
\* the two in it gets no code finding and no tenancy finding at all.
C27_SkippedByFullPath ==
    /\ \A j \in 1..Len(fs.files) :
          (fs.files[j].readable /\ EndsWith(fs.files[j].path, ".py")) =>
              ReportedOrSkipped(fs.files[j])
    /\ PassedOver(args.project_root) =>
          \A k \in 1..Len(issues) : issues[k].category \notin CodeCategories \cup {"Multi-Tenant"}

\* C27, its case: both scanners have run on a project whose root path has
\* 'venv' in it and whose tree has app/views.py, a file with findings of
\* both scanners under any other root, and the run has none of them.
C27_Witness ==
    /\ PassedOver(args.project_root)
    /\ CodeScannerRan /\ TenancyScannerRan
    /\ InTree("app/views.py")
    /\ FileFindings[args.project_root][File("app/views.py", TRUE,
            "    data = eval(body)\n    items = Item.objects.all()\n")].code # <<>>
    /\ \A k \in 1..Len(issues) : issues[k].category \notin CodeCategories \cup {"Multi-Tenant"}

====
